---- MODULE Spec2Model ----
(***************************************************************************)
(* A model of src/config.py (PicoOS Config Manager): the line classifier,  *)
(* the value codec, the document builder (_parse), the serializer (_save)  *)
(* and the dotted-path accessor (get / set).                               *)
(*                                                                         *)
(* Text is a sequence of one-character strings, so that startswith, strip, *)
(* split, lower, isdigit and float() are computed the way Python computes  *)
(* them.  A Python value is a record tagged by its type in field t.  A     *)
(* Python dict is a sequence of [k, v] pairs in insertion order.           *)
(***************************************************************************)
EXTENDS Integers, Sequences, FiniteSets, TLC

\* ------------------------------------------------------------------ bounds
MaxLines == 3          \* most lines in the input file
MaxOps   == 2          \* most set calls after construction
MaxItems == 2          \* most items of a list or inline mapping literal

\* ------------------------------------------------------------ text helpers
NL == "\n"

SetMin(S) == CHOOSE x \in S : \A y \in S : x <= y

SetMax(S) == CHOOSE x \in S : \A y \in S : x >= y

WhiteSpace == {" ", "\t", "\n", "\r"}

Digits == <<"0", "1", "2", "3", "4", "5", "6", "7", "8", "9">>

DigitSet == {Digits[i] : i \in 1..10}

DigitVal(c) == (CHOOSE i \in 1..10 : Digits[i] = c) - 1

UpperLetters == <<"A","B","C","D","E","F","G","H","I","J","K","L","M",
                  "N","O","P","Q","R","S","T","U","V","W","X","Y","Z">>

LowerLetters == <<"a","b","c","d","e","f","g","h","i","j","k","l","m",
                  "n","o","p","q","r","s","t","u","v","w","x","y","z">>

\* str.startswith(c) / str.endswith(c) for a one-character c
StartsWith(s, c) == Len(s) > 0 /\ s[1] = c

EndsWith(s, c) == Len(s) > 0 /\ s[Len(s)] = c

\* c in s
Contains(s, c) == \E i \in 1..Len(s) : s[i] = c

\* s.strip(chars)
StripSet(s, cs) ==
    LET keep == {i \in 1..Len(s) : s[i] \notin cs}
    IN  IF keep = {} THEN <<>> ELSE SubSeq(s, SetMin(keep), SetMax(keep))

\* s.strip()
Strip(s) == StripSet(s, WhiteSpace)

FirstIdx(s, c) == SetMin({i \in 1..Len(s) : s[i] = c})

\* s.split(c)
RECURSIVE SplitAll(_, _)
SplitAll(s, c) ==
    IF ~Contains(s, c) THEN <<s>>
    ELSE LET i == FirstIdx(s, c)
         IN  <<SubSeq(s, 1, i - 1)>> \o SplitAll(SubSeq(s, i + 1, Len(s)), c)

\* s.split(c, 1) for an s that contains c
SplitFirst(s, c) ==
    LET i == FirstIdx(s, c)
    IN  <<SubSeq(s, 1, i - 1), SubSeq(s, i + 1, Len(s))>>

\* s.splitlines(): a trailing newline opens no further line
RECURSIVE SplitLines(_)
SplitLines(s) ==
    IF s = <<>> THEN <<>>
    ELSE IF ~Contains(s, NL) THEN <<s>>
    ELSE LET i == FirstIdx(s, NL)
         IN  <<SubSeq(s, 1, i - 1)>> \o SplitLines(SubSeq(s, i + 1, Len(s)))

LowerChar(c) ==
    IF \E i \in 1..26 : UpperLetters[i] = c
    THEN LowerLetters[CHOOSE i \in 1..26 : UpperLetters[i] = c]
    ELSE c

\* s.lower()
Lower(s) == [i \in 1..Len(s) |-> LowerChar(s[i])]

\* s.isdigit()
IsDigit(s) == Len(s) > 0 /\ \A i \in 1..Len(s) : s[i] \in DigitSet

RECURSIVE Pow10(_)
Pow10(n) == IF n = 0 THEN 1 ELSE 10 * Pow10(n - 1)

\* int(s) for an all-digit s
RECURSIVE IntOf(_)
IntOf(s) ==
    IF s = <<>> THEN 0
    ELSE 10 * IntOf(SubSeq(s, 1, Len(s) - 1)) + DigitVal(s[Len(s)])

\* str(n) for n >= 0
RECURSIVE NatToStr(_)
NatToStr(n) ==
    IF n < 10 THEN <<Digits[n + 1]>>
    ELSE NatToStr(n \div 10) \o <<Digits[(n % 10) + 1]>>

\* str(n) for an int
IntToStr(n) == IF n < 0 THEN <<"-">> \o NatToStr(-n) ELSE NatToStr(n)

\* sep.join(parts)
RECURSIVE Join(_, _)
Join(parts, sep) ==
    IF parts = <<>> THEN <<>>
    ELSE IF Len(parts) = 1 THEN parts[1]
    ELSE parts[1] \o sep \o Join(Tail(parts), sep)

\* ------------------------------------------------------------------ values
VNone == [t |-> "none"]

VBool(b) == [t |-> "bool", b |-> b]

VInt(n) == [t |-> "int", n |-> n]

\* a float is (-1)^neg * m / 10^e, with m not divisible by 10 unless e = 0
VFloat(neg, m, e) == [t |-> "float", neg |-> neg, m |-> m, e |-> e]

VStr(s) == [t |-> "str", s |-> s]

VList(items) == [t |-> "list", items |-> items]

VDict(pairs) == [t |-> "dict", pairs |-> pairs]

EmptyDict == VDict(<<>>)

IsDict(v) == v.t = "dict"

\* key in d
DictHas(d, k) == \E i \in 1..Len(d.pairs) : d.pairs[i].k = k

DictIdx(d, k) == CHOOSE i \in 1..Len(d.pairs) : d.pairs[i].k = k

\* d[key]
DictAt(d, k) == d.pairs[DictIdx(d, k)].v

\* d.get(key)
DictGet(d, k) == IF DictHas(d, k) THEN DictAt(d, k) ELSE VNone

\* d[key] = v : an existing key keeps its position, a new key goes last
DictPut(d, k, v) ==
    IF DictHas(d, k)
    THEN VDict([d.pairs EXCEPT ![DictIdx(d, k)] = [k |-> k, v |-> v]])
    ELSE VDict(Append(d.pairs, [k |-> k, v |-> v]))

\* a setdefault that overwrites: the last write wins
DictSetAlways(d, k, v) == DictPut(d, k, v)

\* d.setdefault(key, v)
DictSetDefault(d, k, v) == IF DictHas(d, k) THEN d ELSE DictPut(d, k, v)

DictKeys(d) == {d.pairs[i].k : i \in 1..Len(d.pairs)}

\* ------------------------------------------------------------- value codec
TrueText == <<"t", "r", "u", "e">>

FalseText == <<"f", "a", "l", "s", "e">>

\* the texts float() accepts, among texts built from sign, digits and point
\* (exponents, inf, nan and digit separators never occur in the texts used)
IsFloatText(s) ==
    LET body == IF StartsWith(s, "-") \/ StartsWith(s, "+") THEN Tail(s) ELSE s
    IN  /\ \A i \in 1..Len(body) : body[i] \in DigitSet \cup {"."}
        /\ Cardinality({i \in 1..Len(body) : body[i] = "."}) <= 1
        /\ \E i \in 1..Len(body) : body[i] \in DigitSet

RECURSIVE NormFloat(_, _, _)
NormFloat(neg, m, e) ==
    IF e > 0 /\ m % 10 = 0 THEN NormFloat(neg, m \div 10, e - 1)
    ELSE VFloat(neg, m, e)

\* float(s) for a text that IsFloatText accepts
FloatOf(s) ==
    LET neg  == StartsWith(s, "-")
        body == IF StartsWith(s, "-") \/ StartsWith(s, "+") THEN Tail(s) ELSE s
        e    == IF Contains(body, ".") THEN Len(body) - FirstIdx(body, ".") ELSE 0
        digs == SelectSeq(body, LAMBDA c : c # ".")
    IN  NormFloat(neg, IntOf(digs), e)

RECURSIVE ZeroPad(_, _)
ZeroPad(s, n) == IF Len(s) >= n THEN s ELSE ZeroPad(<<"0">> \o s, n)

\* a str(f) that loses the sign
FloatToStrNoSign(f) ==
    LET whole == f.m \div Pow10(f.e)
        frac  == f.m % Pow10(f.e)
    IN  NatToStr(whole) \o <<".">> \o
        (IF f.e = 0 THEN <<"0">> ELSE ZeroPad(NatToStr(frac), f.e))

\* str(f) for a float (repr always shows a fractional part)
FloatToStr(f) ==
    LET whole == f.m \div Pow10(f.e)
        frac  == f.m % Pow10(f.e)
    IN  (IF f.neg THEN <<"-">> ELSE <<>>) \o NatToStr(whole) \o <<".">> \o
        (IF f.e = 0 THEN <<"0">> ELSE ZeroPad(NatToStr(frac), f.e))

RECURSIVE ConvertValue(_)
RECURSIVE ConvertItems(_)
RECURSIVE ParseInlineParts(_, _)

\* [self._convert_value(item.strip()) for item in items if item.strip()]
ConvertItems(items) ==
    IF items = <<>> THEN <<>>
    ELSE IF Strip(items[1]) = <<>> THEN ConvertItems(Tail(items))
    ELSE <<ConvertValue(Strip(items[1]))>> \o ConvertItems(Tail(items))

\* the loop of _parse_inline_dict over the comma-separated parts
ParseInlineParts(parts, result) ==
    IF parts = <<>> THEN result
    ELSE IF ~Contains(parts[1], "=") THEN ParseInlineParts(Tail(parts), result)
    ELSE LET kv == SplitFirst(parts[1], "=")
             k  == StripSet(StripSet(Strip(kv[1]), {"\""}), {"'"})
             v  == Strip(kv[2])
         IN  ParseInlineParts(Tail(parts), DictPut(result, k, ConvertValue(v)))

ParseInlineDict(value) ==
    LET inner == Strip(SubSeq(value, 2, Len(value) - 1))
    IN  IF inner = <<>> THEN EmptyDict
        ELSE ParseInlineParts(SplitAll(inner, ","), EmptyDict)

\* a _convert_value that tries float() before isdigit()
ConvertValueFloatFirst(raw) ==
    LET value == Strip(raw)
    IN  IF Lower(value) \in {TrueText, FalseText} THEN VBool(Lower(value) = TrueText)
        ELSE IF IsFloatText(value) THEN FloatOf(value)
        ELSE IF IsDigit(value) THEN VInt(IntOf(value))
        ELSE IF StartsWith(value, "[") /\ EndsWith(value, "]")
             THEN VList(ConvertItems(SplitAll(SubSeq(value, 2, Len(value) - 1), ",")))
        ELSE IF StartsWith(value, "{") /\ EndsWith(value, "}")
             THEN ParseInlineDict(value)
        ELSE VStr(StripSet(value, {"\""}))

ConvertValue(raw) ==
    LET value == Strip(raw)
    IN  IF Lower(value) \in {TrueText, FalseText} THEN VBool(Lower(value) = TrueText)
        ELSE IF IsDigit(value) THEN VInt(IntOf(value))
        ELSE IF IsFloatText(value) THEN FloatOf(value)
        ELSE IF StartsWith(value, "[") /\ EndsWith(value, "]")
             THEN VList(ConvertItems(SplitAll(SubSeq(value, 2, Len(value) - 1), ",")))
        ELSE IF StartsWith(value, "{") /\ EndsWith(value, "}")
             THEN ParseInlineDict(value)
        ELSE VStr(StripSet(value, {"\""}))

RECURSIVE ValueToString(_)
RECURSIVE ItemsToStrings(_)
RECURSIVE PairsToStrings(_)

ItemsToStrings(items) ==
    IF items = <<>> THEN <<>>
    ELSE <<ValueToString(items[1])>> \o ItemsToStrings(Tail(items))

PairsToStrings(pairs) ==
    IF pairs = <<>> THEN <<>>
    ELSE <<(<<"\"">> \o pairs[1].k \o <<"\"", " ", "=", " ">> \o ValueToString(pairs[1].v))>>
         \o PairsToStrings(Tail(pairs))

ValueToString(v) ==
    CASE v.t = "bool"  -> IF v.b THEN TrueText ELSE FalseText
      [] v.t = "int"   -> IntToStr(v.n)
      [] v.t = "float" -> FloatToStr(v)
      [] v.t = "list"  -> <<"[">> \o Join(ItemsToStrings(v.items), <<",", " ">>) \o <<"]">>
      [] v.t = "dict"  -> <<"{", " ">> \o Join(PairsToStrings(v.pairs), <<",", " ">>) \o <<" ", "}">>
      [] v.t = "str"   -> <<"\"">> \o v.s \o <<"\"">>
      [] v.t = "none"  -> <<"\"", "N", "o", "n", "e", "\"">>

\* Python's ==, which compares bool, int and float by numeric value, lists
\* element by element and dicts key by key whatever their order
NumNeg(v) == IF v.t = "float" THEN v.neg ELSE IF v.t = "int" THEN v.n < 0 ELSE FALSE

NumMag(v) ==
    CASE v.t = "bool"  -> IF v.b THEN 1 ELSE 0
      [] v.t = "int"   -> IF v.n < 0 THEN -v.n ELSE v.n
      [] v.t = "float" -> v.m

NumExp(v) == IF v.t = "float" THEN v.e ELSE 0

IsNum(v) == v.t \in {"bool", "int", "float"}

NumEq(v, w) ==
    /\ NumMag(v) * Pow10(NumExp(w)) = NumMag(w) * Pow10(NumExp(v))
    /\ (NumMag(v) = 0 \/ NumNeg(v) = NumNeg(w))

RECURSIVE ValEq(_, _)
ValEq(v, w) ==
    IF IsNum(v) /\ IsNum(w) THEN NumEq(v, w)
    ELSE IF v.t # w.t THEN FALSE
    ELSE CASE v.t = "str"  -> v.s = w.s
           [] v.t = "none" -> TRUE
           [] v.t = "list" -> /\ Len(v.items) = Len(w.items)
                              /\ \A i \in 1..Len(v.items) : ValEq(v.items[i], w.items[i])
           [] v.t = "dict" -> /\ DictKeys(v) = DictKeys(w)
                              /\ \A k \in DictKeys(v) : ValEq(DictAt(v, k), DictAt(w, k))

\* --------------------------------------------------------- line classifier
IsClass(line) == StartsWith(line, "[") /\ EndsWith(line, "]") /\ ~Contains(line, ".")

IsSubClass(line) == StartsWith(line, "[") /\ EndsWith(line, "]") /\ Contains(line, ".")

\* line[1:-1].split(".")
GetClassSubClass(line) == SplitAll(SubSeq(line, 2, Len(line) - 1), ".")

IsComment(line) == StartsWith(line, "#")

IsProperty(line) == Contains(line, "=")

IsBlank(line) == Strip(line) = <<>>

\* -------------------------------------------------------- document builder
\* current_class: () is NoClass; (name, None, False) has isSub FALSE and
\* (cls, subclass, True) has isSub TRUE
NoClass == [set |-> FALSE, cls |-> <<>>, sub |-> <<>>, isSub |-> FALSE]

Pointer(cls, sub, isSub) == [set |-> TRUE, cls |-> cls, sub |-> sub, isSub |-> isSub]

NoErr == "none"

\* the object's fields right after __init__ has set them, before _parse
NewConfig == [fo |-> EmptyDict, sub |-> <<>>, cur |-> NoClass, err |-> NoErr]

ClassExists(fo, key) == DictHas(fo, key)

\* subclasses is a function from section names to sets of names
SubPut(sub, cls, names) == [c \in DOMAIN sub \cup {cls} |-> IF c = cls THEN names ELSE sub[c]]

\* self.subclasses.get(class_name, set())
SubGet(sub, cls) == IF cls \in DOMAIN sub THEN sub[cls] ELSE {}

NewClass(st, line) ==
    LET class_name == SubSeq(line, 2, Len(line) - 1)
    IN  IF ~ClassExists(st.fo, class_name)
        THEN [st EXCEPT !.cur = Pointer(class_name, <<>>, FALSE),
                        !.fo  = DictSetDefault(st.fo, class_name, EmptyDict),
                        !.sub = SubPut(st.sub, class_name, {})]
        ELSE st

NewSubClass(st, line) ==
    LET parts == GetClassSubClass(line)
    IN  IF Len(parts) # 2 THEN [st EXCEPT !.err = "ValueError"]
        ELSE LET cls == parts[1]
                 sc  == parts[2]
                 fo1 == IF ClassExists(st.fo, cls) THEN st.fo
                        ELSE DictSetDefault(st.fo, cls, EmptyDict)
                 sb1 == IF ClassExists(st.fo, cls) THEN st.sub
                        ELSE SubPut(st.sub, cls, {})
             IN  IF cls \notin DOMAIN sb1
                 THEN [st EXCEPT !.cur = Pointer(cls, sc, TRUE), !.fo = fo1,
                                 !.sub = sb1, !.err = "KeyError"]
                 ELSE IF ~IsDict(DictAt(fo1, cls))
                 THEN [st EXCEPT !.cur = Pointer(cls, sc, TRUE), !.fo = fo1,
                                 !.sub = SubPut(sb1, cls, sb1[cls] \cup {sc}),
                                 !.err = "AttributeError"]
                 ELSE [st EXCEPT !.cur = Pointer(cls, sc, TRUE),
                                 !.fo  = DictPut(fo1, cls,
                                            DictSetDefault(DictAt(fo1, cls), sc, EmptyDict)),
                                 !.sub = SubPut(sb1, cls, sb1[cls] \cup {sc})]

\* key, value = line.split("=", 1), key stripped
PropKey(line) == Strip(SplitFirst(line, "=")[1])

PropRaw(line) == Strip(SplitFirst(line, "=")[2])

\* a _newProperty that files a property read before any header under a
\* section of its own, named by the empty text
NewPropertyRoot(st, line) ==
    LET st1   == IF st.cur.set THEN st
                 ELSE [st EXCEPT !.cur = Pointer(<<>>, <<>>, FALSE),
                                 !.fo  = DictSetDefault(st.fo, <<>>, EmptyDict),
                                 !.sub = SubPut(st.sub, <<>>, {})]
        key   == PropKey(line)
        value == ConvertValue(PropRaw(line))
        cls   == st1.cur.cls
        sect  == DictAt(st1.fo, cls)
    IN  IF st1.cur.isSub
        THEN LET target == DictAt(sect, st1.cur.sub)
             IN  IF ~IsDict(target) THEN [st1 EXCEPT !.err = "AttributeError"]
                 ELSE [st1 EXCEPT !.fo = DictPut(st1.fo, cls,
                           DictPut(sect, st1.cur.sub, DictSetDefault(target, key, value)))]
        ELSE [st1 EXCEPT !.fo = DictPut(st1.fo, cls, DictSetDefault(sect, key, value))]

NewProperty(st, line) ==
    IF ~st.cur.set THEN st
    ELSE LET key   == PropKey(line)
             value == ConvertValue(PropRaw(line))
             cls   == st.cur.cls
             sect  == DictAt(st.fo, cls)
         IN  IF st.cur.isSub
             THEN LET target == DictAt(sect, st.cur.sub)
                  IN  IF ~IsDict(target) THEN [st EXCEPT !.err = "AttributeError"]
                      ELSE [st EXCEPT !.fo = DictPut(st.fo, cls,
                                DictPut(sect, st.cur.sub, DictSetDefault(target, key, value)))]
             ELSE [st EXCEPT !.fo = DictPut(st.fo, cls, DictSetDefault(sect, key, value))]

\* the body of the loop of _parse for one line
ParseLine(st, line) ==
    IF IsComment(line) \/ IsBlank(line) THEN st
    ELSE IF IsClass(line) THEN NewClass(st, line)
    ELSE IF IsSubClass(line) THEN NewSubClass(st, line)
    ELSE IF IsProperty(line) THEN NewProperty(st, line)
    ELSE st

\* the loop of _parse: an exception leaves the loop at once
RECURSIVE ParseLines(_, _)
ParseLines(st, ls) ==
    IF ls = <<>> \/ st.err # NoErr THEN st
    ELSE ParseLines(ParseLine(st, ls[1]), Tail(ls))

\* Config(path) on a readable file holding text
ParseText(text) == ParseLines(NewConfig, SplitLines(text))

\* -------------------------------------------------------------- serializer
RECURSIVE PropLines(_)
PropLines(pairs) ==
    IF pairs = <<>> THEN <<>>
    ELSE pairs[1].k \o <<" ", "=", " ">> \o ValueToString(pairs[1].v) \o <<NL>>
         \o PropLines(Tail(pairs))

\* the loop over subs.items(): a sub-table that is no dict has no items()
RECURSIVE SaveSubs(_, _, _)
SaveSubs(class_name, subs, out) ==
    IF subs = <<>> THEN out
    ELSE LET hdr == <<"[">> \o class_name \o <<".">> \o subs[1].k \o <<"]", NL>>
         IN  IF ~IsDict(subs[1].v)
             THEN [text |-> out.text \o hdr, err |-> "AttributeError"]
             ELSE SaveSubs(class_name, Tail(subs),
                           [out EXCEPT !.text = @ \o hdr \o PropLines(subs[1].v.pairs) \o <<NL>>])

SaveClass(class_name, data, sub, out) ==
    IF ~IsDict(data) THEN [out EXCEPT !.err = "AttributeError"]
    ELSE LET names == SubGet(sub, class_name)
             props == SelectSeq(data.pairs, LAMBDA p : p.k \notin names)
             subs  == SelectSeq(data.pairs, LAMBDA p : p.k \in names)
             out1  == IF props # <<>>
                      THEN [out EXCEPT !.text = @ \o <<"[">> \o class_name \o <<"]", NL>>
                                                  \o PropLines(props) \o <<NL>>]
                      ELSE out
         IN  SaveSubs(class_name, subs, out1)

RECURSIVE SaveClasses(_, _, _)
SaveClasses(pairs, sub, out) ==
    IF pairs = <<>> \/ out.err # NoErr THEN out
    ELSE SaveClasses(Tail(pairs), sub, SaveClass(pairs[1].k, pairs[1].v, sub, out))

\* _save: the text written to the file and the exception that ended the
\* writing, if any
Save(fo, sub) == SaveClasses(fo.pairs, sub, [text |-> <<>>, err |-> NoErr])

\* ----------------------------------------------------------- path accessor
Star == <<"*">>

RECURSIVE GetWalk(_, _)
GetWalk(d, parts) ==
    IF parts = <<>> THEN [val |-> d, err |-> NoErr]
    ELSE IF d.t = "none" THEN [val |-> VNone, err |-> NoErr]
    ELSE IF ~IsDict(d) THEN [val |-> VNone, err |-> "AttributeError"]
    ELSE GetWalk(DictGet(d, parts[1]), Tail(parts))

\* get(key): the value returned and the exception raised, if any
Get(fo, key) ==
    IF key = Star THEN [val |-> fo, err |-> NoErr]
    ELSE GetWalk(fo, SplitAll(key, "."))

RECURSIVE SetWalk(_, _, _)

\* a walk that starts every intermediate part from a fresh mapping
SetWalkFresh(d, parts, value) ==
    IF Len(parts) = 1 THEN DictPut(d, parts[1], value)
    ELSE DictPut(d, parts[1], SetWalk(EmptyDict, Tail(parts), value))

SetWalk(d, parts, value) ==
    IF Len(parts) = 1 THEN DictPut(d, parts[1], value)
    ELSE LET part  == parts[1]
             child == IF ~DictHas(d, part) \/ ~IsDict(DictAt(d, part))
                      THEN EmptyDict ELSE DictAt(d, part)
         IN  DictPut(d, part, SetWalk(child, Tail(parts), value))

\* a set that stores the value under the whole key, without walking
SetMemFlat(fo, key, value) == DictPut(fo, key, value)

\* the in-memory part of set(key, value)
SetMem(fo, key, value) == SetWalk(fo, SplitAll(key, "."), value)

\* ------------------------------------------------------------------ inputs
\* the lines an input file is made of
LClassA == <<"[", "a", "]">>

LClassB == <<"[", "b", "]">>

LSubAB == <<"[", "a", ".", "b", "]">>

LSubABC == <<"[", "a", ".", "b", ".", "c", "]">>

LPropX5 == <<"x", " ", "=", " ", "5">>

LPropXTrue == <<"x", " ", "=", " ", "t", "r", "u", "e">>

LPropB == <<"b", " ", "=", " ", "1">>

LPropDot == <<"b", ".", "x", " ", "=", " ", "2">>

LPropDict == <<"b", " ", "=", " ", "{", " ", "\"", "k", "\"", " ", "=", " ", "1", " ", "}">>

LComment == <<"#", " ", "c">>

LBlank == <<>>

LUnknown == <<"j", "u", "n", "k">>

Lines == {LClassA, LClassB, LSubAB, LSubABC, LPropX5, LPropXTrue, LPropB, LPropDot, LPropDict, LComment, LBlank, LUnknown}

Files == {Join(ls, <<NL>>) : ls \in UNION {[1..n -> Lines] : n \in 0..MaxLines}}

\* the dotted keys get and set are called with
KStar == <<"*">>

KA == <<"a">>

KAB == <<"a", ".", "b">>

KAX == <<"a", ".", "x">>

KABX == <<"a", ".", "b", ".", "x">>

KCDX == <<"c", ".", "d", ".", "x">>

KNope == <<"n", "o", "p", "e", ".", "n", "o", "p", "e">>

GetKeys == {KStar, KAX, KABX, KNope}

SetKeys == {KA, KAB, KABX, KCDX}

\* the values set is called with
SetValues == {VInt(7), VDict(<<[k |-> <<"y">>, v |-> VInt(1)]>>)}

\* what the storage does to the write of _save: it succeeds, or it fails with
\* OSError at the first write, when open(path, "w") has emptied the file
IOOutcomes == {"ok", "fail"}

\* ----------------------------------------------------------- state machine
VARIABLES
    file,            \* the text of the backing file
    readable,        \* whether open(path) for reading succeeds
    lines,           \* _parse: self._load().splitlines()
    idx,             \* _parse: position in lines
    file_object,     \* self.file_object
    subclasses,      \* self.subclasses
    current_class,   \* self.current_class
    pc,              \* "new", "parse", "ready", "failed"
    err,             \* exception raised by the last call, or NoErr
    ret,             \* value returned by the last get
    last,            \* the last call made: [op, key, val, io]
    nops,            \* number of set calls made
    hist,            \* history of the construction (no program state)
    pure             \* one text taken through the classifier and the codec

vars == <<file, readable, lines, idx, file_object, subclasses, current_class,
          pc, err, ret, last, nops, hist, pure>>

NoCall == [op |-> "none", key |-> <<>>, val |-> VNone, io |-> "ok"]

\* hist.line: the line just processed; hist.before: the object before it;
\* hist.hdr: the header read last; hist.seen: property keys read since;
\* hist.underHdr: the first property of each key under the header read last;
\* hist.inserted: the first property of each key processed at each pointer
NoHist == [line |-> <<>>, before |-> NewConfig, hdr |-> NoClass, seen |-> {},
           underHdr |-> {}, inserted |-> {}]

\* the dotted key that addresses property key of the section the pointer names
PathOf(ptr, key) ==
    IF ptr.isSub THEN ptr.cls \o <<".">> \o ptr.sub \o <<".">> \o key
    ELSE ptr.cls \o <<".">> \o key

\* pure.step: how far the text pure.raw has been taken; pure.cls: its line
\* class; pure.value, pure.encoded, pure.revalue: it decoded, encoded again
\* and decoded again
Idle == [step |-> "idle", raw |-> <<>>, cls |-> "none", value |-> VNone,
         encoded |-> <<>>, revalue |-> VNone]

Obj == [fo |-> file_object, sub |-> subclasses, cur |-> current_class, err |-> NoErr]

Init ==
    /\ file \in Files
    /\ readable \in BOOLEAN
    /\ (~readable => file = <<>>)
    /\ lines = <<>>
    /\ idx = 1
    /\ file_object = NewConfig.fo
    /\ subclasses = NewConfig.sub
    /\ current_class = NewConfig.cur
    /\ pc = "new"
    /\ err = NoErr
    /\ ret = VNone
    /\ last = NoCall
    /\ nops = 0
    /\ hist = NoHist
    /\ pure = Idle

\* _load
Load ==
    /\ pc = "new"
    /\ IF readable
       THEN /\ lines' = SplitLines(file)
            /\ pc' = "parse"
            /\ err' = NoErr
       ELSE /\ lines' = lines
            /\ pc' = "failed"
            /\ err' = "Exception"
    /\ UNCHANGED pure
    /\ UNCHANGED <<file, readable, idx, file_object, subclasses, current_class,
                   ret, last, nops, hist>>

\* one turn of the loop of _parse on lines[idx], as st becomes the object
Turn(st, h) ==
    /\ file_object' = st.fo
    /\ subclasses' = st.sub
    /\ current_class' = st.cur
    /\ err' = st.err
    /\ pc' = IF st.err # NoErr THEN "failed" ELSE "parse"
    /\ idx' = idx + 1
    /\ hist' = [h EXCEPT !.line = lines[idx], !.before = Obj]
    /\ UNCHANGED pure
    /\ UNCHANGED <<file, readable, lines, ret, last, nops>>

AtLine == pc = "parse" /\ idx <= Len(lines)

SkipLine ==
    /\ AtLine
    /\ IsComment(lines[idx]) \/ IsBlank(lines[idx])
    /\ Turn(ParseLine(Obj, lines[idx]), hist)

ClassLine ==
    /\ AtLine
    /\ ~(IsComment(lines[idx]) \/ IsBlank(lines[idx]))
    /\ IsClass(lines[idx])
    /\ Turn(ParseLine(Obj, lines[idx]),
            [hist EXCEPT !.hdr = Pointer(SubSeq(lines[idx], 2, Len(lines[idx]) - 1), <<>>, FALSE),
                         !.seen = {}])

SubClassLine ==
    /\ AtLine
    /\ ~(IsComment(lines[idx]) \/ IsBlank(lines[idx]))
    /\ ~IsClass(lines[idx])
    /\ IsSubClass(lines[idx])
    /\ LET parts == GetClassSubClass(lines[idx])
       IN  Turn(ParseLine(Obj, lines[idx]),
                [hist EXCEPT !.hdr = Pointer(parts[1], parts[2], TRUE), !.seen = {}])

PropertyLine ==
    /\ AtLine
    /\ ~(IsComment(lines[idx]) \/ IsBlank(lines[idx]))
    /\ ~IsClass(lines[idx])
    /\ ~IsSubClass(lines[idx])
    /\ IsProperty(lines[idx])
    /\ LET key == PropKey(lines[idx])
           val == ConvertValue(PropRaw(lines[idx]))
           e9  == [path |-> PathOf(hist.hdr, key), val |-> val]
           e10 == [ptr |-> current_class, key |-> key, val |-> val]
       IN  Turn(ParseLine(Obj, lines[idx]),
                [hist EXCEPT
                   !.seen = @ \cup {key},
                   !.underHdr = IF hist.hdr.set /\ key \notin hist.seen
                                THEN @ \cup {e9} ELSE @,
                   !.inserted = IF current_class.set
                                   /\ ~\E e \in @ : e.ptr = current_class /\ e.key = key
                                THEN @ \cup {e10} ELSE @])

UnknownLine ==
    /\ AtLine
    /\ ~(IsComment(lines[idx]) \/ IsBlank(lines[idx]))
    /\ ~IsClass(lines[idx])
    /\ ~IsSubClass(lines[idx])
    /\ ~IsProperty(lines[idx])
    /\ Turn(ParseLine(Obj, lines[idx]), hist)

\* the loop of _parse ends and __init__ returns
EndParse ==
    /\ pc = "parse"
    /\ idx > Len(lines)
    /\ pc' = "ready"
    /\ lines' = <<>>
    /\ idx' = 1
    /\ UNCHANGED pure
    /\ UNCHANGED <<file, readable, file_object, subclasses, current_class,
                   err, ret, last, nops, hist>>

\* a get that also writes the Document to the file
DoGetSaving(key) ==
    /\ pc = "ready"
    /\ LET r == Get(file_object, key)
       IN  /\ ret' = r.val
           /\ err' = r.err
    /\ file' = Save(file_object, subclasses).text
    /\ last' = [op |-> "get", key |-> key, val |-> VNone, io |-> "ok"]
    /\ hist' = NoHist
    /\ UNCHANGED pure
    /\ UNCHANGED <<readable, lines, idx, file_object, subclasses,
                   current_class, pc, nops>>

DoGet(key) ==
    /\ pc = "ready"
    /\ LET r == Get(file_object, key)
       IN  /\ ret' = r.val
           /\ err' = r.err
    /\ last' = [op |-> "get", key |-> key, val |-> VNone, io |-> "ok"]
    /\ hist' = NoHist
    /\ UNCHANGED pure
    /\ UNCHANGED <<file, readable, lines, idx, file_object, subclasses,
                   current_class, pc, nops>>

\* a set that undoes its change of the Document when the write fails
DoSetRollback(key, value, io) ==
    /\ pc = "ready"
    /\ nops < MaxOps
    /\ LET fo1 == SetMem(file_object, key, value)
           out == Save(fo1, subclasses)
       IN  IF io = "ok"
           THEN /\ file_object' = fo1
                /\ file' = out.text
                /\ err' = out.err
           ELSE /\ file_object' = file_object
                /\ file' = <<>>
                /\ err' = "OSError"
    /\ last' = [op |-> "set", key |-> key, val |-> value, io |-> io]
    /\ nops' = nops + 1
    /\ ret' = VNone
    /\ hist' = NoHist
    /\ UNCHANGED pure
    /\ UNCHANGED <<readable, lines, idx, subclasses, current_class, pc>>

DoSet(key, value, io) ==
    /\ pc = "ready"
    /\ nops < MaxOps
    /\ LET fo1 == SetMem(file_object, key, value)
           out == Save(fo1, subclasses)
       IN  /\ file_object' = fo1
           /\ IF io = "ok"
              THEN /\ file' = out.text
                   /\ err' = out.err
              ELSE /\ file' = <<>>
                   /\ err' = "OSError"
    /\ last' = [op |-> "set", key |-> key, val |-> value, io |-> io]
    /\ nops' = nops + 1
    /\ ret' = VNone
    /\ hist' = NoHist
    /\ UNCHANGED pure
    /\ UNCHANGED <<readable, lines, idx, subclasses, current_class, pc>>

Next ==
    \/ Load
    \/ SkipLine
    \/ ClassLine
    \/ SubClassLine
    \/ PropertyLine
    \/ UnknownLine
    \/ EndParse
    \/ \E key \in GetKeys : DoGet(key)
    \/ \E key \in SetKeys, value \in SetValues, io \in IOOutcomes : DoSet(key, value, io)

Spec == Init /\ [][Next]_vars

\* ------------------------------------------------------------------ claims
\* the branch of the loop of _parse that a line takes
LineClass(line) ==
    IF IsComment(line) \/ IsBlank(line) THEN "skip"
    ELSE IF IsClass(line) THEN "class"
    ELSE IF IsSubClass(line) THEN "sub"
    ELSE IF IsProperty(line) THEN "prop"
    ELSE "unknown"

\* ------------------------------------------- the codec and classifier alone
\* texts handed to _convert_value and to the tests of _parse
TTrue == <<"t", "r", "u", "e">>

TTrueUpper == <<"T", "R", "U", "E">>

TTrueMixed == <<"T", "r", "u", "e">>

TFalse == <<"f", "a", "l", "s", "e">>

TFalseMixed == <<"f", "A", "l", "S", "e">>

TFive == <<"5">>

TLeadingZeros == <<"0", "0", "7">>

TMinusFive == <<"-", "5">>

TMinusZero == <<"-", "0">>

TFraction == <<"1", ".", "5", "0">>

TPlusHalf == <<"+", ".", "5">>

TBare == <<"a">>

TQuoted == <<"\"", "a", "\"">>

TDoubleQuoted == <<"\"", "\"", "a", "\"", "\"">>

TQuotedTrue == <<"\"", "t", "r", "u", "e", "\"">>

TQuotedFive == <<"\"", "5", "\"">>

TEmpty == <<>>

TEmptyQuoted == <<"\"", "\"">>

TTrailingQuote == <<"a", "\"">>

TInnerQuote == <<"a", "\"", "b">>

TPadded == <<" ", " ", "5", " ">>

TWords == <<"a", " ", "b">>

TQuotedComma == <<"\"", "a", ",", "b", "\"">>

TQuotedList == <<"\"", "[", "a", "]", "\"">>

TOpenBracket == <<"[", "a">>

TEmptyMap == <<"{", "}">>

TTightMap == <<"{", "\"", "k", "\"", "=", "1", "}">>

TLooseList == <<"[", " ", "a", " ", ",", "\"", "b", "\"", ",", "]">>

TListQuotedComma == <<"[", "\"", "a", ",", "b", "\"", "]">>

TMapQuotedComma == <<"{", " ", "\"", "k", "\"", " ", "=", " ", "\"", "a", ",", "b", "\"", " ", "}">>

TMapTwice == <<"{", " ", "k", " ", "=", " ", "1", ",", " ", "k", " ", "=", " ", "2", " ", "}">>

TMapNoEquals == <<"{", " ", "a", " ", "}">>

LPadClassLeft == <<" ", "[", "a", "]">>

LPadClassRight == <<"[", "a", "]", " ">>

LClassEquals == <<"[", "a", "=", "b", "]">>

LPadClassEquals == <<" ", "[", "a", "=", "b", "]">>

LSubEquals == <<"[", "a", ".", "b", "=", "c", "]">>

LPadSub == <<" ", "[", "a", ".", "b", "]", " ">>

LPadComment == <<" ", "#", " ", "c">>

ScalarTexts == {TTrue, TTrueUpper, TTrueMixed, TFalse, TFalseMixed, TFive, TLeadingZeros, TMinusFive, TMinusZero, TFraction, TPlusHalf, TBare, TQuoted, TDoubleQuoted, TQuotedTrue, TQuotedFive, TEmpty, TEmptyQuoted, TTrailingQuote, TInnerQuote, TPadded, TWords, TQuotedComma, TQuotedList, TOpenBracket}

OddTexts == {TEmptyMap, TTightMap, TLooseList, TListQuotedComma, TMapQuotedComma, TMapTwice, TMapNoEquals}

PaddedLines == {LPadClassLeft, LPadClassRight, LClassEquals, LPadClassEquals, LSubEquals, LPadSub, LPadComment}

ItemTexts == {TBare, TQuoted, TFive, TMinusFive, TTrue}

ItemSeqs == UNION {[1..n -> ItemTexts] : n \in 0..MaxItems}

\* the literal [item, item, ...]
ListOf(items) == <<"[">> \o Join(items, <<",", " ">>) \o <<"]">>

\* the literal { "k1" = item, "k2" = item, ... }
MapOf(items) ==
    <<"{", " ">>
    \o Join([i \in 1..Len(items) |->
                <<"\"", "k">> \o NatToStr(i) \o <<"\"", " ", "=", " ">> \o items[i]],
            <<",", " ">>)
    \o <<" ", "}">>

ListTexts == {ListOf(items) : items \in ItemSeqs}

MapTexts == {MapOf(items) : items \in ItemSeqs}

Texts == ScalarTexts \cup OddTexts \cup ListTexts \cup MapTexts \cup Lines \cup PaddedLines

InitText ==
    /\ file = <<>>
    /\ readable = TRUE
    /\ lines = <<>>
    /\ idx = 1
    /\ file_object = NewConfig.fo
    /\ subclasses = NewConfig.sub
    /\ current_class = NewConfig.cur
    /\ pc = "text"
    /\ err = NoErr
    /\ ret = VNone
    /\ last = NoCall
    /\ nops = 0
    /\ hist = NoHist
    /\ pure \in {[Idle EXCEPT !.step = "text", !.raw = t] : t \in Texts}

Object == <<file, readable, lines, idx, file_object, subclasses, current_class,
            pc, err, ret, last, nops, hist>>

\* the chain of tests of _parse on pure.raw
Classify ==
    /\ pure.step = "text"
    /\ pure' = [pure EXCEPT !.step = "classified", !.cls = LineClass(pure.raw)]
    /\ UNCHANGED Object

\* _convert_value(pure.raw)
Decode ==
    /\ pure.step = "classified"
    /\ pure' = [pure EXCEPT !.step = "decoded", !.value = ConvertValue(pure.raw)]
    /\ UNCHANGED Object

\* _value_to_string of the decoded value
Encode ==
    /\ pure.step = "decoded"
    /\ pure' = [pure EXCEPT !.step = "encoded", !.encoded = ValueToString(pure.value)]
    /\ UNCHANGED Object

\* _convert_value of the encoded text
Redecode ==
    /\ pure.step = "encoded"
    /\ pure' = [pure EXCEPT !.step = "done", !.revalue = ConvertValue(pure.encoded)]
    /\ UNCHANGED Object

NextText ==
    \/ Classify
    \/ Decode
    \/ Encode
    \/ Redecode

SpecText == InitText /\ [][NextText]_vars

\* equal in value and in type, an int and a float of one numeric value
\* counting as equal
RECURSIVE TypedEq(_, _)
TypedEq(v, w) ==
    IF v.t \in {"int", "float"} /\ w.t \in {"int", "float"} THEN NumEq(v, w)
    ELSE IF v.t # w.t THEN FALSE
    ELSE CASE v.t = "list" -> /\ Len(v.items) = Len(w.items)
                              /\ \A i \in 1..Len(v.items) : TypedEq(v.items[i], w.items[i])
           [] v.t = "dict" -> /\ DictKeys(v) = DictKeys(w)
                              /\ \A k \in DictKeys(v) : TypedEq(DictAt(v, k), DictAt(w, k))
           [] OTHER        -> v = w

\* C13: decoding a literal, encoding the value and decoding the text again
\* gives a value equal to the first in value and in type, int against float
\* of the same numeric value being the only change of type allowed.
CodecRoundTrip ==
    pure.step = "done" => TypedEq(pure.revalue, pure.value)

\* the list [a, -5] went round: its text was rewritten and it decoded again
\* to a list of the string a and the float -5
CodecRoundTripWitness ==
    /\ pure.step = "done"
    /\ pure.raw = ListOf(<<TBare, TMinusFive>>)
    /\ pure.encoded # pure.raw
    /\ pure.revalue = VList(<<VStr(<<"a">>), VFloat(TRUE, 5, 0)>>)

\* the type of the first rule, in the order boolean, all-digit integer,
\* float literal, list, inline mapping, string, that the text matches
RuleType(raw) ==
    LET s == Strip(raw)
    IN  CASE Lower(s) \in {TrueText, FalseText}         -> "bool"
          [] IsDigit(s)                                  -> "int"
          [] IsFloatText(s)                              -> "float"
          [] StartsWith(s, "[") /\ EndsWith(s, "]")      -> "list"
          [] StartsWith(s, "{") /\ EndsWith(s, "}")      -> "dict"
          [] OTHER                                        -> "str"

\* C14: the decoded value has the type of the first rule that matches, in
\* the order boolean, all-digit integer, float, list, inline mapping, string;
\* -5 decodes to the float -5 and true/false in any letter case to booleans.
DecodingPrecedence ==
    pure.step \in {"decoded", "encoded", "done"} =>
        /\ pure.value.t = RuleType(pure.raw)
        /\ pure.raw = TMinusFive => pure.value = VFloat(TRUE, 5, 0)
        /\ IsDigit(Strip(pure.raw)) => pure.value = VInt(IntOf(Strip(pure.raw)))
        /\ Lower(pure.raw) = TrueText => pure.value = VBool(TRUE)
        /\ Lower(pure.raw) = FalseText => pure.value = VBool(FALSE)

\* -5 has been decoded, to a float
DecodingPrecedenceWitness ==
    /\ pure.step = "decoded"
    /\ pure.raw = TMinusFive
    /\ pure.value.t = "float"

\* C18: a line that, leading and trailing whitespace aside, is wrapped in
\* [ ] is a class header when it holds no dot and a subclass header when it
\* holds one, also when it holds an =.
ClassifierOrder ==
    LET s == Strip(pure.raw)
    IN  (pure.step # "text" /\ StartsWith(s, "[") /\ EndsWith(s, "]"))
        => pure.cls = IF Contains(s, ".") THEN "sub" ELSE "class"

\* one layer of surrounding double quotes removed, if there is one
Unquote(s) ==
    IF Len(s) >= 2 /\ StartsWith(s, "\"") /\ EndsWith(s, "\"")
    THEN SubSeq(s, 2, Len(s) - 1)
    ELSE s

\* C19: a literal that matches no rule before the string rule decodes to
\* the string that is its text with exactly one layer of surrounding double
\* quotes removed if present: ""a"" decodes to "a", unquoted text to itself.
StringFallback ==
    (pure.step \in {"decoded", "encoded", "done"} /\ RuleType(pure.raw) = "str")
    => pure.value = VStr(Unquote(Strip(pure.raw)))

\* a line of the supported grammar: header, two-part subclass header,
\* property, comment or blank
Supported(line) ==
    \/ LineClass(line) \in {"skip", "class", "prop"}
    \/ LineClass(line) = "sub" /\ Len(GetClassSubClass(line)) = 2

\* construction has returned and neither get nor set has been called
Constructed == pc = "ready" /\ last.op = "none"

\* C1: parsing a file of supported lines, serializing the Document and
\* parsing the serialized text again yields a Document equal by value to the
\* first one, also when the file holds a section with no property and no
\* sub-table.
RoundTrip ==
    (Constructed /\ \A i \in 1..Len(SplitLines(file)) : Supported(SplitLines(file)[i]))
    => LET out == Save(file_object, subclasses)
           st2 == ParseText(out.text)
       IN  /\ out.err = NoErr
           /\ st2.err = NoErr
           /\ ValEq(st2.fo, file_object)

\* C2: get never raises: a call of get ends with a value or the absence
\* marker, also when the walk meets a node that is no mapping.
GetNeverRaises == last.op = "get" => err = NoErr

\* C3: set raises only on storage failure: when the write to the backing
\* store succeeds, set(key, value) completes without raising.
SetRaisesOnlyOnStorageFailure == (last.op = "set" /\ last.io = "ok") => err = NoErr

\* C4: construction is total on readable input: only a failure to load the
\* file aborts construction.
ConstructionTotal == pc = "failed" => ~readable

\* C5: for every section name S and every key K in SubtableIndex[S],
\* Document[S][K] exists and is a mapping.
SubtableIndexInv ==
    pc \in {"parse", "ready"} =>
        \A S \in DOMAIN subclasses : \A K \in subclasses[S] :
            /\ DictHas(file_object, S)
            /\ IsDict(DictAt(file_object, S))
            /\ DictHas(DictAt(file_object, S), K)
            /\ IsDict(DictAt(DictAt(file_object, S), K))

\* C6: after a class header line the current pointer is InSection(name)
\* whether or not name was seen before, a section seen before keeps its
\* data, and a property line that follows lands in section name.
ClassHeaderReentry ==
    LET name == SubSeq(hist.line, 2, Len(hist.line) - 1)
    IN  /\ (pc \in {"parse", "ready"} /\ LineClass(hist.line) = "class")
           => /\ current_class = Pointer(name, <<>>, FALSE)
              /\ ClassExists(hist.before.fo, name) => file_object = hist.before.fo
        /\ (pc \in {"parse", "ready"} /\ LineClass(hist.line) = "prop"
               /\ hist.hdr.set /\ ~hist.hdr.isSub)
           => /\ DictHas(file_object, hist.hdr.cls)
              /\ IsDict(DictAt(file_object, hist.hdr.cls))
              /\ DictHas(DictAt(file_object, hist.hdr.cls), PropKey(hist.line))

\* the proper prefixes p1, p1.p2, ... of a dotted key
Prefixes(key) ==
    LET parts == SplitAll(key, ".")
    IN  {Join(SubSeq(parts, 1, i), <<".">>) : i \in 1..(Len(parts) - 1)}

\* C7: after set(k, v) returns, for a key k of two parts or more, every
\* proper prefix of k resolves to a mapping and get(k) returns v.
SetThenGet ==
    (last.op = "set" /\ err = NoErr /\ Len(SplitAll(last.key, ".")) >= 2)
    => /\ \A pre \in Prefixes(last.key) :
              /\ Get(file_object, pre).err = NoErr
              /\ IsDict(Get(file_object, pre).val)
       /\ Get(file_object, last.key) = [val |-> last.val, err |-> NoErr]

\* a first set("c.d.x", v) has returned: c and c.d were missing and now lead to v
SetThenGetWitness ==
    /\ last.op = "set"
    /\ err = NoErr
    /\ nops = 1
    /\ last.key = KCDX
    /\ Get(file_object, <<"c", ".", "d">>).val = VDict(<<[k |-> <<"x">>, v |-> last.val]>>)
    /\ Get(file_object, KCDX).val = last.val

\* C8: after every set call that returns, parsing the backing store afresh
\* yields a Document equal by value to the in-memory Document.
WriteThrough ==
    (last.op = "set" /\ err = NoErr)
    => LET st2 == ParseText(file)
       IN  /\ st2.err = NoErr
           /\ ValEq(st2.fo, file_object)

\* C9: after construction, for every property line k = v that is the first
\* with key k under the header read last, get of the header's path followed
\* by k returns the decoded value of v.
FirstUnderHeader ==
    Constructed =>
        \A e \in hist.underHdr : Get(file_object, e.path) = [val |-> e.val, err |-> NoErr]

\* the section or subsection of document fo that pointer ptr names
Active(fo, ptr) ==
    IF ptr.isSub THEN DictAt(DictAt(fo, ptr.cls), ptr.sub) ELSE DictAt(fo, ptr.cls)

\* the last line processed was a property line whose key the active section
\* already held: the key keeps its value
DuplicateKept ==
    (pc \in {"parse", "ready"} /\ last.op = "none" /\ LineClass(hist.line) = "prop"
        /\ hist.before.cur.set)
    => LET b == Active(hist.before.fo, hist.before.cur)
           a == Active(file_object, hist.before.cur)
           k == PropKey(hist.line)
       IN  (IsDict(b) /\ DictHas(b, k)) => (DictHas(a, k) /\ DictAt(a, k) = DictAt(b, k))

Collides(cls) ==
    \E e \in hist.inserted : ~e.ptr.isSub /\ e.ptr.cls = cls /\ e.key \in SubGet(subclasses, cls)

MultiDotHeader ==
    LET parts == GetClassSubClass(hist.line)
    IN  (pc # "new" /\ last.op = "none" /\ LineClass(hist.line) = "sub" /\ Len(parts) > 2)
        => /\ pc # "failed"
           /\ current_class = Pointer(parts[1], parts[2], TRUE)
           /\ parts[2] \in SubGet(subclasses, parts[1])
           /\ DictHas(file_object, parts[1])
           /\ IsDict(DictGet(DictAt(file_object, parts[1]), parts[2]))
           /\ ~DictHas(DictAt(DictAt(file_object, parts[1]), parts[2]), parts[3])

\* C12: when set(key, value) fails because the write to the backing store
\* fails, the Document already holds value at key and get(key) returns it.
NoRollback ==
    (last.op = "set" /\ err = "OSError")
    => /\ Get(file_object, last.key) = [val |-> last.val, err |-> NoErr]
       /\ \A pre \in Prefixes(last.key) : IsDict(Get(file_object, pre).val)

\* set("c.d.x", v) has failed on the write and c.d.x holds v
NoRollbackWitness ==
    /\ last.op = "set"
    /\ last.io = "fail"
    /\ err = "OSError"
    /\ last.key = KCDX
    /\ file = <<>>
    /\ Get(file_object, KCDX).val = last.val

\* new is old with value put at path p[i..]: every key other than p[i] is
\* held by both with the same value; p[i] is held by new, and holds value
\* when it is the last part, else a mapping that is so related to the
\* mapping old held there, or to a fresh empty one
RECURSIVE FrameAt(_, _, _, _, _)
FrameAt(old, new, p, i, value) ==
    LET k0   == p[i]
        keys == DictKeys(old) \cup DictKeys(new)
    IN  /\ \A k \in keys \ {k0} :
              /\ DictHas(old, k)
              /\ DictHas(new, k)
              /\ DictAt(new, k) = DictAt(old, k)
        /\ DictHas(new, k0)
        /\ LET n1 == DictAt(new, k0)
               o1 == IF DictHas(old, k0) THEN DictAt(old, k0) ELSE VNone
           IN  IF i = Len(p) THEN n1 = value
               ELSE /\ IsDict(n1)
                    /\ FrameAt(IF IsDict(o1) THEN o1 ELSE EmptyDict, n1, p, i + 1, value)

\* C15: set(p1...pn, v) changes only the node at the addressed path: an
\* intermediate part that is missing or no mapping becomes a fresh mapping,
\* one that is a mapping keeps its other keys and values, the final part is
\* overwritten with v, and every key off the path and the SubtableIndex stay
\* as they were.
SetFrame ==
    [][(last'.op = "set" /\ nops' = nops + 1) =>
         /\ subclasses' = subclasses
         /\ LET p == SplitAll(last'.key, ".")
            IN  FrameAt(file_object, file_object', p, 1, last'.val)
      ]_vars

\* set("a.b.x", v) has been called on a section a that held property x = 5:
\* a.x is still 5 and a.b.x is v
SetFrameWitness ==
    /\ last.op = "set"
    /\ last.key = KABX
    /\ nops = 1
    /\ Get(file_object, KAX) = [val |-> VInt(5), err |-> NoErr]
    /\ Get(file_object, KABX) = [val |-> last.val, err |-> NoErr]

\* the number of property lines _save owes to the sub-tables among pairs
RECURSIVE SubPropCount(_, _)
SubPropCount(pairs, names) ==
    IF pairs = <<>> THEN 0
    ELSE (IF pairs[1].k \in names /\ IsDict(pairs[1].v) THEN Len(pairs[1].v.pairs) ELSE 0)
         + SubPropCount(Tail(pairs), names)

RECURSIVE DocPropCount(_, _)
DocPropCount(pairs, sub) ==
    IF pairs = <<>> THEN 0
    ELSE LET names == SubGet(sub, pairs[1].k)
         IN  Len(SelectSeq(pairs[1].v.pairs, LAMBDA q : q.k \notin names))
             + SubPropCount(pairs[1].v.pairs, names)
             + DocPropCount(Tail(pairs), sub)

\* C16: when every top-level value is a section, serializing succeeds and
\* the serialized text holds, for each section, a [section] header if
\* and only if the section has a key that is no sub-table, and for each key
\* in SubtableIndex[section] a [section.sub] header followed by that
\* sub-table's properties; a key recorded as a sub-table is written as no
\* property line, so the property lines are those of the properties and of
\* the sub-tables' properties.
SerializerLayout ==
    (pc = "ready" /\ \A j \in 1..Len(file_object.pairs) : IsDict(file_object.pairs[j].v)) =>
        LET out == Save(file_object, subclasses)
            ls  == SplitLines(out.text)
            Has(line) == \E i \in 1..Len(ls) : ls[i] = line
        IN  /\ out.err = NoErr
            /\ \A j \in 1..Len(file_object.pairs) :
                  LET S     == file_object.pairs[j].k
                      data  == file_object.pairs[j].v
                      names == SubGet(subclasses, S)
                  IN  /\ Has(<<"[">> \o S \o <<"]">>) <=> (DictKeys(data) \ names # {})
                      /\ \A K \in names : Has(<<"[">> \o S \o <<".">> \o K \o <<"]">>)
            /\ Cardinality({i \in 1..Len(ls) : LineClass(ls[i]) = "prop"})
                  = DocPropCount(file_object.pairs, subclasses)

\* C17: a comment line, a blank line, an unknown line and a property line
\* read while no section is current leave the Document, the SubtableIndex
\* and the current pointer unchanged, and parsing goes on.
NonMutatingLines ==
    (/\ idx > 1
     /\ last.op = "none"
     /\ \/ LineClass(hist.line) \in {"skip", "unknown"}
        \/ LineClass(hist.line) = "prop" /\ ~hist.before.cur.set)
    => /\ file_object = hist.before.fo
       /\ subclasses = hist.before.sub
       /\ current_class = hist.before.cur
       /\ err = NoErr
       /\ pc \in {"parse", "ready"}

\* an unknown line was read inside a section, which is as it was
NonMutatingWitness ==
    /\ pc \in {"parse", "ready"}
    /\ idx > 1
    /\ last.op = "none"
    /\ hist.line = LUnknown
    /\ hist.before.cur.set
    /\ file_object = hist.before.fo
    /\ current_class = hist.before.cur

\* a property line was read before any header and dropped
OrphanPropertyWitness ==
    /\ pc \in {"parse", "ready"}
    /\ idx > 1
    /\ last.op = "none"
    /\ LineClass(hist.line) = "prop"
    /\ ~hist.before.cur.set
    /\ file_object = EmptyDict

\* C20: a call of get leaves the Document, the SubtableIndex and the backing
\* file unchanged; the file changes only in a call of set.
GetReadOnly ==
    [][/\ (last'.op = "get" /\ <<last, ret, err, hist>>' # <<last, ret, err, hist>>
             /\ nops' = nops /\ pc = "ready")
          => UNCHANGED <<file_object, subclasses, file>>
       /\ file' # file => (last'.op = "set" /\ nops' = nops + 1)
      ]_vars

\* get("*") has returned the whole Document of a file that holds a property
GetReadOnlyWitness ==
    /\ last.op = "get"
    /\ last.key = Star
    /\ ret = file_object
    /\ nops = 0
    /\ file # <<>>
    /\ Get(file_object, KAX).val = VInt(5)

====
